---- MODULE Spec2Model ----
(***************************************************************************)
(* Model of src/src/preprocessing.py: the column taxonomy, the schema      *)
(* validator, the column dropper, the split helper and the fit/transform   *)
(* pipeline (drop -> ColumnTransformer of four imputer/encoder groups).    *)
(*                                                                         *)
(* A table (pandas DataFrame) is a record                                  *)
(*     [columns |-> sequence of column names,                              *)
(*      nrows   |-> number of rows,                                        *)
(*      data    |-> function  column name -> sequence of nrows cells].     *)
(* An array (what a library step takes and returns) is a record            *)
(*     [nrows, data |-> sequence of columns, each a sequence of cells].    *)
(* A cell is a set of at most one value: {} is a missing value (NaN/None), *)
(* {v} holds v.  The names of a feature table's columns are the tuples     *)
(* <<column>> and, for an indicator, <<column, category>>.                 *)
(***************************************************************************)
EXTENDS Integers, Sequences, FiniteSets, TLC

VARIABLES pipe, last

vars == <<pipe, last>>

Range(s) == {s[i] : i \in 1..Len(s)}

\* A sequence given as a function, as the tuple it equals (TLC evaluates a
\* tuple once and a function constructor at every use).
Tuple(f) == f \o <<>>

(***************************************************************************)
(* Configuration (lines 19-147)                                            *)
(***************************************************************************)
TARGET_COL == "SalePrice"

DROP_COLS ==
    <<"Order", "PID", "Mo Sold", "Yr Sold", "Sale Type", "Sale Condition",
      "Pool QC", "Alley", "Fence", "Misc Feature">>

ORDINAL_COLS ==
    <<"Overall Qual", "Overall Cond", "Exter Qual", "Exter Cond",
      "Bsmt Qual", "Bsmt Cond", "Bsmt Exposure", "BsmtFin Type 1",
      "BsmtFin Type 2", "Heating QC", "Kitchen Qual", "Functional",
      "Fireplace Qu", "Garage Finish", "Garage Qual", "Garage Cond",
      "Land Slope", "Lot Shape", "Paved Drive">>

NOMINAL_COLS ==
    <<"MS Zoning", "Street", "Land Contour", "Utilities", "Lot Config",
      "Neighborhood", "Condition 1", "Condition 2", "Bldg Type",
      "House Style", "Roof Style", "Roof Matl", "Exterior 1st",
      "Exterior 2nd", "Mas Vnr Type", "Foundation", "Heating",
      "Central Air", "Electrical", "Garage Type">>

NUMERIC_COLS ==
    <<"Lot Frontage", "Lot Area", "Mas Vnr Area", "BsmtFin SF 1",
      "BsmtFin SF 2", "Bsmt Unf SF", "Total Bsmt SF", "1st Flr SF",
      "2nd Flr SF", "Low Qual Fin SF", "Gr Liv Area", "Bsmt Full Bath",
      "Bsmt Half Bath", "Full Bath", "Half Bath", "Bedroom AbvGr",
      "Kitchen AbvGr", "TotRms AbvGrd", "Fireplaces", "Garage Cars",
      "Garage Area", "Wood Deck SF", "Open Porch SF", "Enclosed Porch",
      "3Ssn Porch", "Screen Porch", "Pool Area", "Misc Val">>

QUAL_SCALE == <<"None", "Po", "Fa", "TA", "Gd", "Ex">>

BSMTFIN_SCALE == <<"None", "Unf", "LwQ", "Rec", "BLQ", "ALQ", "GLQ">>

ORDINAL_CATEGORIES(c) ==
    CASE c \in {"Exter Qual", "Exter Cond", "Bsmt Qual", "Bsmt Cond",
                "Heating QC", "Kitchen Qual", "Fireplace Qu", "Garage Qual",
                "Garage Cond"} -> QUAL_SCALE
      [] c = "Bsmt Exposure" -> <<"None", "No", "Mn", "Av", "Gd">>
      [] c \in {"BsmtFin Type 1", "BsmtFin Type 2"} -> BSMTFIN_SCALE
      [] c = "Garage Finish" -> <<"None", "Unf", "RFn", "Fin">>
      [] c = "Land Slope" -> <<"Gtl", "Mod", "Sev">>
      [] c = "Lot Shape" -> <<"IR3", "IR2", "IR1", "Reg">>
      [] c = "Paved Drive" -> <<"N", "P", "Y">>
      [] c = "Functional" ->
            <<"Sal", "Sev", "Maj2", "Maj1", "Mod", "Min2", "Min1", "Typ">>

(***************************************************************************)
(* Python's sorted() on column names.  TLA+ strings carry no order, so the *)
(* order of str.__lt__ on the 78 names the validator can report is written *)
(* out; sorting a set of them is selecting from this list.                 *)
(***************************************************************************)
SortedNames ==
    <<"1st Flr SF", "2nd Flr SF", "3Ssn Porch", "Alley",
      "Bedroom AbvGr", "Bldg Type", "Bsmt Cond", "Bsmt Exposure",
      "Bsmt Full Bath", "Bsmt Half Bath", "Bsmt Qual", "Bsmt Unf SF",
      "BsmtFin SF 1", "BsmtFin SF 2", "BsmtFin Type 1", "BsmtFin Type 2",
      "Central Air", "Condition 1", "Condition 2", "Electrical",
      "Enclosed Porch", "Exter Cond", "Exter Qual", "Exterior 1st",
      "Exterior 2nd", "Fence", "Fireplace Qu",
      "Fireplaces", "Foundation", "Full Bath", "Functional",
      "Garage Area", "Garage Cars", "Garage Cond", "Garage Finish",
      "Garage Qual", "Garage Type", "Gr Liv Area", "Half Bath",
      "Heating", "Heating QC", "House Style", "Kitchen AbvGr",
      "Kitchen Qual", "Land Contour", "Land Slope", "Lot Area",
      "Lot Config", "Lot Frontage", "Lot Shape", "Low Qual Fin SF",
      "MS Zoning", "Mas Vnr Area", "Mas Vnr Type", "Misc Feature",
      "Misc Val", "Mo Sold", "Neighborhood", "Open Porch SF",
      "Order", "Overall Cond", "Overall Qual", "PID",
      "Paved Drive", "Pool Area", "Pool QC", "Roof Matl",
      "Roof Style", "Sale Condition", "Sale Type", "SalePrice",
      "Screen Porch", "Street", "TotRms AbvGrd", "Total Bsmt SF",
      "Utilities", "Wood Deck SF", "Yr Sold">>

sorted(S) ==
    LET In(c) == c \in S IN SelectSeq(SortedNames, In)

(***************************************************************************)
(* Cells and tables                                                        *)
(***************************************************************************)
NaN == {}

isna(cell) == cell = NaN

Value(cell) == CHOOSE v \in cell : TRUE

\* (columns is named before the other fields: TLC orders record fields by
\* first use, and tables of different layouts must differ on their columns
\* before their cells are compared.)
NCols(t) == Len(t.columns)

NRows(t) == t.nrows

Indices(s) == Tuple([j \in 1..Len(s) |-> j])

IndexOf(s, x) == CHOOSE j \in 1..Len(s) : s[j] = x

\* DataFrame.drop(columns = cols, errors = errors): a new table without the
\* listed columns; with errors = "raise" a listed column that is absent is a
\* KeyError, with errors = "ignore" it is skipped.
pd_drop(df, cols, errors) ==
    LET listed == Range(cols)
        Keep(c) == c \notin listed
        kept == SelectSeq(df.columns, Keep)
    IN  IF errors = "raise" /\ listed \ Range(df.columns) # {}
        THEN [raised |-> "KeyError"]
        ELSE [raised |-> "",
              value |-> [columns |-> kept, nrows |-> df.nrows,
                         data |-> [c \in Range(kept) |-> df.data[c]]]]

\* df[cols] handed to a library step: the listed columns as an array, in the
\* order of the list.
pd_select(df, cols) ==
    [nrows |-> df.nrows,
     data |-> Tuple([k \in 1..Len(cols) |-> df.data[cols[k]]])]

(***************************************************************************)
(* Validation (lines 154-171)                                              *)
(***************************************************************************)
expected_columns(require_target) ==
    Range(NUMERIC_COLS \o NOMINAL_COLS \o ORDINAL_COLS \o DROP_COLS)
        \cup (IF require_target THEN {TARGET_COL} ELSE {})

\* A validator whose message stops at the first absent column.
validate_first_missing(df, require_target) ==
    LET missing == sorted(expected_columns(require_target) \ Range(df.columns))
    IN  IF missing # <<>>
        THEN [raised |-> "ValueError", missing |-> <<Head(missing)>>]
        ELSE [raised |-> "", missing |-> <<>>]

\* The call's outcome: raised = "" and no message when it returns None,
\* raised = "ValueError" with the list the message prints otherwise.
validate_columns(df, require_target) ==
    LET missing == sorted(expected_columns(require_target) \ Range(df.columns))
    IN  IF missing # <<>>
        THEN [raised |-> "ValueError", missing |-> missing]
        ELSE [raised |-> "", missing |-> <<>>]

(***************************************************************************)
(* DropColumns (lines 178-190)                                             *)
(***************************************************************************)
\* A dropper that removes only the first column of its list.
DropColumns_first_only(columns, X) ==
    pd_drop(X, IF columns = <<>> THEN <<>> ELSE <<Head(columns)>>,
            "ignore").value

DropColumns_transform(columns, X) == pd_drop(X, columns, "ignore").value

(***************************************************************************)
(* split_X_y (lines 263-269)                                               *)
(***************************************************************************)
\* A split that also takes the drop list out of X.
split_without_drop_list(df) ==
    LET v == validate_columns(df, TRUE)
    IN  IF v.raised # ""
        THEN [raised |-> v.raised, missing |-> v.missing]
        ELSE [raised |-> "", missing |-> <<>>,
              X |-> pd_drop(df, <<TARGET_COL>> \o DROP_COLS, "raise").value,
              y |-> df.data[TARGET_COL],
              y_shares_df |-> FALSE]

split_X_y(df) ==
    LET v == validate_columns(df, TRUE)
    IN  IF v.raised # ""
        THEN [raised |-> v.raised, missing |-> v.missing]
        ELSE [raised |-> "", missing |-> <<>>,
              X |-> pd_drop(df, <<TARGET_COL>>, "raise").value,
              y |-> df.data[TARGET_COL],
              y_shares_df |-> FALSE]

(***************************************************************************)
(* Library steps configured by make_preprocessor (lines 197-245).          *)
(* Each is modelled by what scikit-learn does for the arguments given on   *)
(* the cited line.                                                         *)
(***************************************************************************)
RECURSIVE Flatten(_)
Flatten(ss) == IF Len(ss) = 0 THEN <<>> ELSE Head(ss) \o Flatten(Tail(ss))

RECURSIVE Insert(_, _)
Insert(x, s) ==
    IF Len(s) = 0 THEN <<x>>
    ELSE IF x <= Head(s) THEN <<x>> \o s
    ELSE <<Head(s)>> \o Insert(x, Tail(s))

RECURSIVE SortInts(_)
SortInts(s) == IF Len(s) = 0 THEN <<>> ELSE Insert(Head(s), SortInts(Tail(s)))

\* The non-missing values of a column, in row order.
Observed(col) ==
    LET Present(cell) == ~isna(cell)
        seen == SelectSeq(col, Present)
    IN  Tuple([k \in 1..Len(seen) |-> Value(seen[k])])

\* numpy.nanmedian of a column: NaN when nothing is observed, the middle
\* value, or the mean of the two middle values (the tables below hold numbers
\* of one parity, so that this mean is an integer).
median(vals) ==
    LET s == SortInts(vals)
        n == Len(s)
    IN  IF n = 0 THEN NaN
        ELSE IF n % 2 = 1 THEN {s[(n + 1) \div 2]}
        ELSE {(s[n \div 2] + s[n \div 2 + 1]) \div 2}

\* The order of str.__lt__ on the category labels the tables below hold.
SortedLabels == <<"A", "B", "C">>

Count(vals, v) == Cardinality({i \in 1..Len(vals) : vals[i] = v})

\* SimpleImputer's _most_frequent on an object column: the smallest of the
\* most frequent values, NaN when nothing is observed.
most_frequent(vals) ==
    LET top == {v \in Range(vals) :
                  \A w \in Range(vals) : Count(vals, w) <= Count(vals, v)}
        IsTop(v) == v \in top
    IN  IF Len(vals) = 0 THEN NaN ELSE {Head(SelectSeq(SortedLabels, IsTop))}

\* SimpleImputer(strategy, fill_value).fit: statistics_, one cell per column.
imputer_fit(A, strategy, fill_value) ==
    Tuple([j \in 1..Len(A.data) |->
        CASE strategy = "median" -> median(Observed(A.data[j]))
          [] strategy = "most_frequent" -> most_frequent(Observed(A.data[j]))
          [] strategy = "constant" -> {fill_value}])

\* The columns SimpleImputer.transform returns: with keep_empty_features at
\* its default (False) a column whose statistic is NaN, one with no observed
\* value in fit, is dropped, except under strategy "constant".
imputer_valid(stats, strategy) ==
    LET Valid(j) == strategy = "constant" \/ ~isna(stats[j])
    IN  SelectSeq(Indices(stats), Valid)

\* One column with every missing cell replaced by the statistic.
impute(col, stat) ==
    Tuple([i \in 1..Len(col) |-> IF isna(col[i]) THEN stat ELSE col[i]])

\* SimpleImputer.transform.
imputer_transform(stats, strategy, A) ==
    LET valid == imputer_valid(stats, strategy)
    IN  [nrows |-> A.nrows,
         data |-> Tuple([k \in 1..Len(valid) |->
                           impute(A.data[valid[k]], stats[valid[k]])])]

\* The names of the columns an imputer keeps.
imputer_names(stats, strategy, cols) ==
    LET valid == imputer_valid(stats, strategy)
    IN  Tuple([k \in 1..Len(valid) |-> cols[valid[k]]])

\* The distinct entries of a sequence, in the order of their first occurrence.
RECURSIVE Distinct(_)
Distinct(s) ==
    IF Len(s) = 0 THEN <<>>
    ELSE LET NotHead(v) == v # Head(s)
         IN  <<Head(s)>> \o Distinct(SelectSeq(Tail(s), NotHead))

\* An encoder that lists the categories in the order the rows show them.
onehot_fit_first_seen(A) ==
    Tuple([j \in 1..Len(A.data) |-> Distinct(Observed(A.data[j]))])

\* OneHotEncoder.fit with categories = "auto": categories_, per column the
\* distinct values of the (imputed) training column, sorted.
onehot_fit(A) ==
    Tuple([j \in 1..Len(A.data) |->
        LET seen == {Value(cell) : cell \in Range(A.data[j])}
            Seen(v) == v \in seen
        IN  SelectSeq(SortedLabels, Seen)])

\* The indicator columns, in output order: <<j, k>> is the indicator of
\* category k of input column j.
onehot_layout(cats) ==
    Flatten(Tuple([j \in 1..Len(cats) |->
                Tuple([k \in 1..Len(cats[j]) |-> <<j, k>>])]))

\* An encoder that counts a value outside the fitted categories as the
\* column's first category.
onehot_unknown_as_first(cats, A) ==
    LET lay == onehot_layout(cats)
        Indicator(col, j, k) ==
            Tuple([i \in 1..Len(col) |->
                IF \/ col[i] = {cats[j][k]}
                   \/ k = 1 /\ col[i] \cap Range(cats[j]) = {}
                THEN {1} ELSE {0}])
    IN  [nrows |-> A.nrows,
         data |-> Tuple([n \in 1..Len(lay) |->
                    Indicator(A.data[lay[n][1]], lay[n][1], lay[n][2])])]

\* OneHotEncoder(handle_unknown = "ignore", sparse_output = False).transform:
\* an indicator is 1 where the cell holds its category; a value outside the
\* fitted categories leaves the column's block all zero.
onehot_transform(cats, A) ==
    LET lay == onehot_layout(cats)
        Indicator(col, v) ==
            Tuple([i \in 1..Len(col) |-> IF col[i] = {v} THEN {1} ELSE {0}])
    IN  [nrows |-> A.nrows,
         data |-> Tuple([n \in 1..Len(lay) |->
                    Indicator(A.data[lay[n][1]], cats[lay[n][1]][lay[n][2]])])]

\* OrdinalEncoder(categories, handle_unknown = "use_encoded_value",
\* unknown_value).transform of one value: its index in the column's list,
\* unknown_value when the list does not hold it.
ordinal_code(scale, v, unknown_value) ==
    IF v \in Range(scale) THEN IndexOf(scale, v) - 1 ELSE unknown_value

ordinal_transform(cats, unknown_value, A) ==
    LET Codes(col, scale) ==
            Tuple([i \in 1..Len(col) |->
                     {ordinal_code(scale, Value(col[i]), unknown_value)}])
    IN  [nrows |-> A.nrows,
         data |-> Tuple([j \in 1..Len(A.data) |-> Codes(A.data[j], cats[j])])]

\* numpy.hstack of the four transformers' arrays, in the order of the list.
hstack(b1, b2, b3, b4) ==
    [nrows |-> b1.nrows, data |-> b1.data \o b2.data \o b3.data \o b4.data]

(***************************************************************************)
(* make_preprocessor (lines 197-245)                                       *)
(***************************************************************************)
ordinal_numeric == <<"Overall Qual", "Overall Cond">>

ordinal_encode ==
    LET NotNumeric(c) == c \notin Range(ordinal_numeric)
    IN  SelectSeq(ORDINAL_COLS, NotNumeric)

categories_in_order ==
    Tuple([j \in 1..Len(ordinal_encode) |->
             ORDINAL_CATEGORIES(ordinal_encode[j])])

\* A fill value that no scale holds.
ordinal_fill_value_off_scale == "Missing"

ordinal_fill_value == "None"

ordinal_unknown_value == -1

\* The columns the ColumnTransformer selects by name; the rest of the table
\* is dropped (remainder = "drop").
transformer_columns ==
    NUMERIC_COLS \o NOMINAL_COLS \o ordinal_numeric \o ordinal_encode

\* ColumnTransformer.fit: the fitted state of the four pipelines, learned
\* from X alone.
preprocessor_fit(X) ==
    LET nom == pd_select(X, NOMINAL_COLS)
        nom_stat == imputer_fit(nom, "most_frequent", "")
    IN  [fitted   |-> TRUE,
         num_stat |-> imputer_fit(pd_select(X, NUMERIC_COLS), "median", ""),
         nom_stat |-> nom_stat,
         nom_cats |-> onehot_fit(
                        imputer_transform(nom_stat, "most_frequent", nom)),
         ordnum_stat |-> imputer_fit(pd_select(X, ordinal_numeric),
                                     "median", ""),
         ord_stat |-> imputer_fit(pd_select(X, ordinal_encode), "constant",
                                  ordinal_fill_value),
         ord_cats |-> categories_in_order]

\* A transform that hands the numeric columns on as they are.
preprocessor_transform_raw_numeric(st, X) ==
    hstack(
        pd_select(X, NUMERIC_COLS),
        onehot_transform(st.nom_cats,
            imputer_transform(st.nom_stat, "most_frequent",
                              pd_select(X, NOMINAL_COLS))),
        imputer_transform(st.ordnum_stat, "median",
                          pd_select(X, ordinal_numeric)),
        ordinal_transform(st.ord_cats, ordinal_unknown_value,
            imputer_transform(st.ord_stat, "constant",
                              pd_select(X, ordinal_encode))))

\* ColumnTransformer.transform: the four blocks in the order of the
\* transformers list.
preprocessor_transform(st, X) ==
    hstack(
        imputer_transform(st.num_stat, "median", pd_select(X, NUMERIC_COLS)),
        onehot_transform(st.nom_cats,
            imputer_transform(st.nom_stat, "most_frequent",
                              pd_select(X, NOMINAL_COLS))),
        imputer_transform(st.ordnum_stat, "median",
                          pd_select(X, ordinal_numeric)),
        ordinal_transform(st.ord_cats, ordinal_unknown_value,
            imputer_transform(st.ord_stat, "constant",
                              pd_select(X, ordinal_encode))))

\* ColumnTransformer.get_feature_names_out (line 292), with
\* verbose_feature_names_out = False: the names of the columns transform
\* returns, from the fitted state alone.
get_feature_names_out(st) ==
    LET Plain(cols) == Tuple([j \in 1..Len(cols) |-> <<cols[j]>>])
        nom == imputer_names(st.nom_stat, "most_frequent", NOMINAL_COLS)
        lay == onehot_layout(st.nom_cats)
    IN  Plain(imputer_names(st.num_stat, "median", NUMERIC_COLS))
        \o Tuple([n \in 1..Len(lay) |->
                    <<nom[lay[n][1]], st.nom_cats[lay[n][1]][lay[n][2]]>>])
        \o Plain(imputer_names(st.ordnum_stat, "median", ordinal_numeric))
        \o Plain(imputer_names(st.ord_stat, "constant", ordinal_encode))

\* What makes the ColumnTransformer raise a ValueError: a selected column
\* that the table lacks (fit: "A given column is not a column of the
\* dataframe"; transform: "columns are missing"), or a table without rows
\* (the imputers' input validation asks for at least one sample).
preprocessor_rejects(X) ==
    \/ Range(transformer_columns) \ Range(X.columns) # {}
    \/ NRows(X) = 0

(***************************************************************************)
(* make_full_pipeline (lines 248-256): drop -> prep                        *)
(***************************************************************************)
Unfitted == [fitted |-> FALSE]

NoArray == [nrows |-> 0, data |-> <<>>]

\* A fit that keeps the state of an earlier fit.
pipeline_fit_keeping_prior(prior, X, y) ==
    LET Xd == DropColumns_transform(DROP_COLS, X)
    IN  IF preprocessor_rejects(Xd)
        THEN [raised |-> "ValueError", state |-> prior]
        ELSE [raised |-> "",
              state |-> IF prior.fitted THEN prior ELSE preprocessor_fit(Xd)]

\* Pipeline.fit(X, y): y is handed on and used by no step.  A fit that
\* raises leaves the pipeline as it was: the ColumnTransformer fits clones
\* and installs them only when all four have returned.
pipeline_fit(prior, X, y) ==
    LET Xd == DropColumns_transform(DROP_COLS, X)
    IN  IF preprocessor_rejects(Xd)
        THEN [raised |-> "ValueError", state |-> prior]
        ELSE [raised |-> "", state |-> preprocessor_fit(Xd)]

\* A transform that first validates the whole taxonomy, the drop list
\* included.
pipeline_transform_validating(st, X) ==
    LET Xd == DropColumns_transform(DROP_COLS, X)
    IN  IF ~st.fitted THEN [raised |-> "NotFittedError", value |-> NoArray]
        ELSE IF validate_columns(X, FALSE).raised # "" \/ preprocessor_rejects(Xd)
        THEN [raised |-> "ValueError", value |-> NoArray]
        ELSE [raised |-> "", value |-> preprocessor_transform(st, Xd)]

\* Pipeline.transform(X).
pipeline_transform(st, X) ==
    LET Xd == DropColumns_transform(DROP_COLS, X)
    IN  IF ~st.fitted THEN [raised |-> "NotFittedError", value |-> NoArray]
        ELSE IF preprocessor_rejects(Xd)
        THEN [raised |-> "ValueError", value |-> NoArray]
        ELSE [raised |-> "", value |-> preprocessor_transform(st, Xd)]

(***************************************************************************)
(* The tables the calls are made with.  A row follows a profile; a column  *)
(* at an odd place of its taxonomy list is "probed" and takes the          *)
(* profile's special value, the others keep the base value, so that the    *)
(* columns of one group do not all behave alike.                           *)
(***************************************************************************)
MaxTrainRows == 2

MaxInputRows == 2

MaxDataRows == 1

Probed(c) ==
    \E s \in {NUMERIC_COLS, NOMINAL_COLS, ORDINAL_COLS, DROP_COLS} :
        \E i \in 1..Len(s) : s[i] = c /\ i % 2 = 1

MaxScale ==
    CHOOSE n \in 1..Len(SortedNames) :
        /\ \A c \in Range(ordinal_encode) : Len(ORDINAL_CATEGORIES(c)) <= n
        /\ \E c \in Range(ordinal_encode) : Len(ORDINAL_CATEGORIES(c)) = n

\* kind: "base", "alt" (probed columns hold a second value), "na" (probed
\* columns and every ordinal-categorical column are missing), "none" (every
\* ordinal-categorical column holds "None"), "unk" (every categorical column
\* holds a label no fit has seen), "rank" (every ordinal-categorical column
\* holds entry k of its scale, the last one when the scale is shorter).
Profile(kind, k) == [kind |-> kind, k |-> k]

Cell(p, c) ==
    CASE c \in Range(NUMERIC_COLS) ->
            IF ~Probed(c) THEN {2}
            ELSE IF p.kind = "alt" THEN {4}
            ELSE IF p.kind = "na" THEN NaN ELSE {2}
      [] c \in Range(NOMINAL_COLS) ->
            IF p.kind = "unk" THEN {"C"}
            ELSE IF ~Probed(c) THEN {"A"}
            ELSE IF p.kind = "alt" THEN {"B"}
            ELSE IF p.kind = "na" THEN NaN ELSE {"A"}
      [] c \in Range(ordinal_numeric) ->
            IF ~Probed(c) THEN {5}
            ELSE IF p.kind = "alt" THEN {7}
            ELSE IF p.kind = "na" THEN NaN ELSE {5}
      [] c \in Range(ordinal_encode) ->
            LET scale == ORDINAL_CATEGORIES(c)
            IN  (CASE p.kind = "base" -> {scale[1]}
                   [] p.kind = "alt" -> {scale[Len(scale)]}
                   [] p.kind = "na" -> NaN
                   [] p.kind = "none" -> {"None"}
                   [] p.kind = "unk" -> {"Zz"}
                   [] p.kind = "rank" ->
                        {scale[IF p.k <= Len(scale) THEN p.k ELSE Len(scale)]})
      [] c \in Range(DROP_COLS) ->
            IF Probed(c) /\ p.kind = "na" THEN NaN ELSE {1}
      [] c = TARGET_COL -> IF p.kind = "alt" THEN {200} ELSE {100}
      [] OTHER -> {9}

MkTable(columns, profiles) ==
    [columns |-> columns,
     nrows |-> Len(profiles),
     data |-> [c \in Range(columns) |->
                 Tuple([i \in 1..Len(profiles) |-> Cell(profiles[i], c)])]]

SeqsUpTo(S, n) == UNION {[1..m -> S] : m \in 0..n}

\* The feature columns in the order of the data set, without the target.
FeatureColumns == NUMERIC_COLS \o NOMINAL_COLS \o ORDINAL_COLS \o DROP_COLS

Without(columns, S) ==
    LET Keep(c) == c \notin S IN SelectSeq(columns, Keep)

Basic == {Profile("base", 0), Profile("alt", 0), Profile("na", 0)}

\* Column layouts of a table handed to the pipeline: the raw feature table,
\* the labelled table, a table with an unclassified column, a table already
\* stripped of the drop list, and tables lacking one column of each group.
Layouts ==
    {FeatureColumns \o <<TARGET_COL>>,
     FeatureColumns \o <<"Extra">>,
     Without(FeatureColumns, Range(DROP_COLS)),
     Without(FeatureColumns, {"PID"}),
     Without(FeatureColumns, {"Lot Area"}),
     Without(FeatureColumns, {"Street"}),
     Without(FeatureColumns, {"Overall Cond"}),
     Without(FeatureColumns, {"Functional", "Lot Area"})}

TrainTables ==
    {MkTable(FeatureColumns, ps) : ps \in SeqsUpTo(Basic, MaxTrainRows)}
        \cup {MkTable(l, <<Profile("alt", 0), Profile("base", 0)>>) : l \in Layouts}

InputTables ==
    {MkTable(FeatureColumns, ps) : ps \in SeqsUpTo(Basic, MaxInputRows)}
        \cup {MkTable(FeatureColumns, <<Profile(kind, 0)>>) : kind \in {"none", "unk"}}
        \cup {MkTable(FeatureColumns, <<Profile("rank", k)>>) : k \in 2..MaxScale}
        \cup {MkTable(l, <<Profile("alt", 0)>>) : l \in Layouts}

\* Tables handed to the validator, the dropper and the split helper: any
\* subset of five expected columns may be absent, an unclassified column may
\* be present, the target may come first.
Removable == {"Lot Area", "SalePrice", "Street", "Functional", "PID"}

DataTables ==
    {MkTable(Without(pre \o FeatureColumns \o post, gone), ps) :
        pre \in {<<>>, <<"Extra">>},
        post \in {<<TARGET_COL>>},
        gone \in SUBSET Removable,
        ps \in SeqsUpTo({Profile("base", 0), Profile("na", 0)}, MaxDataRows)}

DropLists == {DROP_COLS, <<"PID", "Absent">>, <<>>}

(***************************************************************************)
(* State: the pipeline instance (its fitted state, with the training table *)
(* and the feature names of its last fit that returned), and the call that *)
(* has just returned: its arguments as they are after the call and its     *)
(* outcome.  The caller takes the outcome (Done) before its next call.     *)
(* pipe.refitted tells that the last fit replaced the state of another.    *)
(***************************************************************************)
NoTable == [columns |-> <<>>, nrows |-> 0, data |-> <<>>]

Idle == [op |-> "none"]

Init ==
    /\ pipe = [state |-> Unfitted, X |-> NoTable, names |-> <<>>,
               refitted |-> FALSE]
    /\ last = Idle

\* _validate_columns(df, require_target=rt)
Validate(df, rt) ==
    /\ last = Idle
    /\ last' = [op |-> "validate", df |-> df, require_target |-> rt,
                df_after |-> df, out |-> validate_columns(df, rt)]
    /\ UNCHANGED pipe

\* DropColumns(columns).transform(X)
Drop(columns, X) ==
    /\ last = Idle
    /\ last' = [op |-> "drop", columns |-> columns, X |-> X, X_after |-> X,
                out |-> DropColumns_transform(columns, X)]
    /\ UNCHANGED pipe

\* split_X_y(df)
Split(df) ==
    /\ last = Idle
    /\ last' = [op |-> "split", df |-> df, df_after |-> df,
                out |-> split_X_y(df)]
    /\ UNCHANGED pipe

\* pipe.fit(X, y)
Fit(X, y) ==
    LET r == pipeline_fit(pipe.state, X, y)
    IN  /\ last = Idle
        /\ pipe' = IF r.raised # "" THEN pipe
                   ELSE [state |-> r.state, X |-> X,
                         names |-> get_feature_names_out(r.state),
                         refitted |-> pipe.state.fitted]
        /\ last' = [op |-> "fit", X |-> X, y |-> y, raised |-> r.raised]

\* A transform that fits the steps on the batch it is given.
Transform_refitting(X) ==
    LET r == pipeline_fit(pipe.state, X, <<>>)
        st == IF pipe.state.fitted /\ r.raised = "" THEN r.state ELSE pipe.state
    IN  /\ last = Idle
        /\ last' = [op |-> "transform", X |-> X, X_after |-> X,
                    out |-> pipeline_transform(st, X)]
        /\ pipe' = [pipe EXCEPT !.state = st]

\* pipe.transform(X)
Transform(X) ==
    /\ last = Idle
    /\ last' = [op |-> "transform", X |-> X, X_after |-> X,
                out |-> pipeline_transform(pipe.state, X)]
    /\ UNCHANGED pipe

\* The caller has the outcome of the call.
Done ==
    /\ last # Idle
    /\ last' = Idle
    /\ UNCHANGED pipe

Targets(X) == {Tuple([i \in 1..NRows(X) |-> {v}]) : v \in {100, 200}}

Next ==
    \/ \E X \in TrainTables : \E y \in Targets(X) : Fit(X, y)
    \/ \E X \in InputTables : Transform(X)
    \/ Done

Spec == Init /\ [][Next]_vars

NextTables ==
    \/ \E df \in DataTables : \E rt \in BOOLEAN : Validate(df, rt)
    \/ \E df \in DataTables : Split(df)
    \/ \E X \in DataTables : \E columns \in DropLists : Drop(columns, X)
    \/ Done

SpecTables == Init /\ [][NextTables]_vars

(***************************************************************************)
(* Properties of the validator, the dropper and the split helper           *)
(* (checked under SpecTables)                                              *)
(***************************************************************************)
Taxonomy ==
    Range(NUMERIC_COLS) \cup Range(NOMINAL_COLS) \cup Range(ORDINAL_COLS)
        \cup Range(DROP_COLS)

Place(c) == IndexOf(SortedNames, c)

SameCells(A, B, cols) == \A c \in cols : A.data[c] = B.data[c]

\* C1: _validate_columns raises exactly when an expected column (the
\* taxonomy, plus SalePrice when require_target) is absent; the error lists
\* every absent expected column once, in sorted order, and no column that is
\* present; extra columns do not matter and the table is left as it was.
C1_ValidateNamesEveryMissingColumn ==
    last.op = "validate" =>
        LET want == Taxonomy \cup (IF last.require_target
                                   THEN {"SalePrice"} ELSE {})
            absent == want \ Range(last.df.columns)
            msg == last.out.missing
        IN  /\ (last.out.raised = "ValueError") <=> (absent # {})
            /\ (last.out.raised = "") <=> (absent = {})
            /\ Range(msg) = absent
            /\ Len(msg) = Cardinality(absent)
            /\ \A i, j \in 1..Len(msg) : i < j => Place(msg[i]) < Place(msg[j])
            /\ absent = {"Lot Area", "SalePrice"}
                  => msg = <<"Lot Area", "SalePrice">>
            /\ last.df_after = last.df

\* A call on a table that lacks Lot Area and SalePrice (and two more) and
\* carries an unclassified column.
C1_Witness ==
    /\ last.op = "validate"
    /\ last.require_target
    /\ last.out.raised = "ValueError"
    /\ {"Lot Area", "SalePrice"} \subseteq Range(last.out.missing)
    /\ Len(last.out.missing) > 2
    /\ "Extra" \in Range(last.df.columns)

\* C7: on a table with every taxonomy column and SalePrice, split_X_y
\* returns X = the table without SalePrice (same rows, same cells, one column
\* fewer, the drop list still there) and y = a copy of the SalePrice column,
\* and leaves the table as it was; on any other table it raises the
\* validation error and returns nothing.
C7_SplitKeepsAllButTarget ==
    last.op = "split" =>
        LET df == last.df
            out == last.out
        IN  /\ last.df_after = df
            /\ (Taxonomy \cup {"SalePrice"}) \subseteq Range(df.columns) =>
                  /\ out.raised = ""
                  /\ out.X.columns = Without(df.columns, {"SalePrice"})
                  /\ NCols(out.X) = NCols(df) - 1
                  /\ NRows(out.X) = NRows(df)
                  /\ DOMAIN out.X.data = Range(out.X.columns)
                  /\ SameCells(out.X, df, Range(out.X.columns))
                  /\ Range(DROP_COLS) \subseteq Range(out.X.columns)
                  /\ out.y = df.data["SalePrice"]
                  /\ Len(out.y) = NRows(df)
                  /\ ~out.y_shares_df
            /\ ~((Taxonomy \cup {"SalePrice"}) \subseteq Range(df.columns)) =>
                  /\ out.raised = "ValueError"
                  /\ out.missing # <<>>
                  /\ DOMAIN out = {"raised", "missing"}

\* A split of a labelled table with a row and an unclassified column.
C7_Witness ==
    /\ last.op = "split"
    /\ last.out.raised = ""
    /\ NRows(last.df) > 0
    /\ "Extra" \in Range(last.out.X.columns)
    /\ Len(last.out.y) > 0

\* C9: DropColumns.transform returns a new table with exactly the columns
\* of the input that are not listed, in the input's order, rows and kept
\* cells unchanged; the input is left as it was, a listed column that is
\* absent is no error, and dropping again changes nothing.
C9_DropRemovesListedColumns ==
    last.op = "drop" =>
        LET X == last.X
            out == last.out
        IN  /\ out.columns = Without(X.columns, Range(last.columns))
            /\ NRows(out) = NRows(X)
            /\ DOMAIN out.data = Range(out.columns)
            /\ SameCells(out, X, Range(out.columns))
            /\ last.X_after = X
            /\ DropColumns_transform(last.columns, out) = out

\* A drop whose list names a column the table has and one it lacks.
C9_Witness ==
    /\ last.op = "drop"
    /\ Range(last.columns) \cap Range(last.X.columns) # {}
    /\ Range(last.columns) \ Range(last.X.columns) # {}
    /\ NRows(last.X) > 0
    /\ NCols(last.out) < NCols(last.X)

(***************************************************************************)
(* Properties of the full pipeline (checked under Spec)                    *)
(***************************************************************************)
Fitted == pipe.state.fitted

TransformOk == last.op = "transform" /\ last.out.raised = ""

\* The columns the preprocessor needs: the taxonomy without the drop list.
Needed == Taxonomy \ Range(DROP_COLS)

HasNeeded(X) == Needed \subseteq Range(X.columns)

OrdinalEncoded == Without(ORDINAL_COLS, {"Overall Qual", "Overall Cond"})

\* The values column c holds in the training table of the last fit.
TrainSeen(c) == UNION Range(pipe.X.data[c])

\* The output column called name, at row i of the table just returned.
OutCell(name, i) == last.out.value.data[IndexOf(pipe.names, name)][i]

NoMissing(A) ==
    \A n \in 1..Len(A.data) : \A i \in 1..Len(A.data[n]) : ~isna(A.data[n][i])

\* The feature table of the training table itself.
TrainingTimeTable == pipeline_transform(pipe.state, pipe.X).value

\* C2 as stated: a missing ordinal-categorical value encodes to the rank of
\* "None" in the column's scale (and so does "None"), a category off the
\* scale encodes to -1, a category of the scale to its index.
C2_MissingIsRankOfNone ==
    TransformOk =>
        \A c \in Range(OrdinalEncoded) : \A i \in 1..NRows(last.X) :
            LET scale == ORDINAL_CATEGORIES(c)
                cell == last.X.data[c][i]
                code == OutCell(<<c>>, i)
            IN  /\ isna(cell) \/ cell = {"None"} =>
                      /\ "None" \in Range(scale)
                      /\ code = {IndexOf(scale, "None") - 1}
                /\ cell \cap Range(scale) = {} /\ ~isna(cell)
                      /\ cell # {"None"} => code = {-1}
                /\ cell \cap Range(scale) # {} =>
                      code = {IndexOf(scale, Value(cell)) - 1}

\* C2, amended: a missing ordinal-categorical value encodes to the same
\* integer as "None": the rank of "None" (0) in the thirteen scales that hold
\* it, and -1 for Functional, Land Slope, Lot Shape and Paved Drive, whose
\* scales do not; a category off the scale encodes to -1, a category of the
\* scale to its index.
C2_MissingEncodesAsNone ==
    TransformOk =>
        \A c \in Range(OrdinalEncoded) : \A i \in 1..NRows(last.X) :
            LET scale == ORDINAL_CATEGORIES(c)
                cell == last.X.data[c][i]
                code == OutCell(<<c>>, i)
                none == IF "None" \in Range(scale)
                        THEN IndexOf(scale, "None") - 1 ELSE -1
            IN  /\ isna(cell) \/ cell = {"None"} => code = {none}
                /\ "None" \in Range(scale) <=>
                      c \notin {"Functional", "Land Slope", "Lot Shape",
                                "Paved Drive"}
                /\ "None" \in Range(scale) => none = 0
                /\ cell \cap Range(scale) = {} /\ ~isna(cell) => code = {-1}
                /\ cell \cap Range(scale) # {} =>
                      code = {IndexOf(scale, Value(cell)) - 1}

\* A transform of a row whose ordinal-categorical values are all missing.
C2_Witness ==
    /\ TransformOk
    /\ \E i \in 1..NRows(last.X) :
          /\ isna(last.X.data["Land Slope"][i])
          /\ isna(last.X.data["Exter Qual"][i])
          /\ OutCell(<<"Land Slope">>, i) = {-1}
          /\ OutCell(<<"Exter Qual">>, i) = {0}

\* C3: on a fitted pipeline, a row whose value in a nominal column did not
\* appear in the training table raises no error and has 0 in every
\* indicator column of that column's block, and the feature table is as wide
\* as the one of the training table, whose rows hold seen categories only.
C3_UnseenNominalIsAllZero ==
    (last.op = "transform" /\ Fitted /\ HasNeeded(last.X)) =>
        \A c \in Range(NOMINAL_COLS) : \A i \in 1..NRows(last.X) :
            LET cell == last.X.data[c][i]
            IN  (~isna(cell) /\ cell \cap TrainSeen(c) = {}) =>
                    /\ last.out.raised = ""
                    /\ \A n \in 1..Len(pipe.names) :
                          (Len(pipe.names[n]) = 2 /\ pipe.names[n][1] = c)
                              => last.out.value.data[n][i] = {0}
                    /\ Len(last.out.value.data) = Len(TrainingTimeTable.data)
                    /\ Len(last.out.value.data) = Len(pipe.names)

\* A transform of a row holding an unseen value in a nominal column whose
\* block has two indicator columns.
C3_Witness ==
    /\ TransformOk
    /\ \E c \in Range(NOMINAL_COLS) : \E i \in 1..NRows(last.X) :
          /\ Cardinality(TrainSeen(c)) = 2
          /\ last.X.data[c][i] = {"C"}
          /\ <<c, "A">> \in Range(pipe.names)
          /\ OutCell(<<c, "A">>, i) = {0}
          /\ OutCell(<<c, "B">>, i) = {0}

RECURSIVE SeenCount(_)
SeenCount(cols) ==
    IF Len(cols) = 0 THEN 0
    ELSE Cardinality(TrainSeen(Head(cols))) + SeenCount(Tail(cols))

\* |NUMERIC_COLS| + the categories seen per nominal column + 2 + 17.
ClaimedWidth == Len(NUMERIC_COLS) + SeenCount(NOMINAL_COLS) + 2 + 17

TrainObserved ==
    \A c \in Range(NUMERIC_COLS) \cup Range(ORDINAL_COLS) : TrainSeen(c) # {}

C10_FailsIffTaxonomyColumnAbsent ==
    (last.op = "transform" /\ Fitted) =>
        ((last.out.raised # "") <=> (Taxonomy \ Range(last.X.columns) # {}))

\* C10, amended: transform of a fitted pipeline fails exactly when the input
\* lacks a numeric, nominal or ordinal column or has no row; an absent
\* drop-list column, missing values, unseen categories and unclassified
\* columns do not make it fail.
C10_FailsIffNeededColumnAbsentOrNoRow ==
    (last.op = "transform" /\ Fitted) =>
        /\ (last.out.raised # "") <=>
              (~HasNeeded(last.X) \/ NRows(last.X) = 0)
        /\ last.out.raised \in {"", "ValueError"}

\* A transform that returned for a table without the drop list.
C10_Witness ==
    /\ TransformOk
    /\ Range(DROP_COLS) \cap Range(last.X.columns) = {}
    /\ NRows(last.X) > 0

\* C5: a transform call leaves the pipeline's fitted state (imputation
\* values, nominal vocabularies, feature names) exactly as the last fit left
\* it, and the table it returns has the columns of the training-time
\* feature table, in number and in order, whatever the batch holds.
C5_TransformKeepsFittedState ==
    [][last'.op = "transform" =>
          /\ pipe' = pipe
          /\ last'.out.raised = "" =>
                /\ Len(last'.out.value.data) = Len(pipe.names)
                /\ Len(last'.out.value.data) = Len(TrainingTimeTable.data)
                /\ get_feature_names_out(pipe'.state) = pipe.names]_vars

\* A transform of a batch that is not the training table and holds
\* categories the fit has not seen.
C5_Witness ==
    /\ TransformOk
    /\ last.X # pipe.X
    /\ \E c \in Range(NOMINAL_COLS) : \E i \in 1..NRows(last.X) :
          /\ ~isna(last.X.data[c][i])
          /\ last.X.data[c][i] \cap TrainSeen(c) = {}
    /\ Len(last.out.value.data) = Len(pipe.names)

\* C6: the fitted state is the one a new pipeline gets from a single fit on
\* the training table of the last fit, whatever y is and whatever fits and
\* transforms came before, so a transform returns what that new pipeline
\* returns for the same input.
C6_OutputDependsOnLastFitOnly ==
    /\ Fitted =>
          \A y \in Targets(pipe.X) :
              pipeline_fit(Unfitted, pipe.X, y)
                  = [raised |-> "", state |-> pipe.state]
    /\ (last.op = "fit" /\ last.raised = "") => pipe.X = last.X
    /\ (last.op = "transform" /\ Fitted) =>
          \A y \in Targets(pipe.X) :
              last.out = pipeline_transform(
                             pipeline_fit(Unfitted, pipe.X, y).state, last.X)

\* A transform by a pipeline that has been fitted more than once.
C6_Witness ==
    /\ TransformOk
    /\ pipe.refitted
    /\ NRows(last.X) > 0

Plain(cols) == Tuple([j \in 1..Len(cols) |-> <<cols[j]>>])

\* The indicator names of the nominal columns, block by block, with the
\* categories of column c in the order Order(c).
Blocks(Order(_)) ==
    Flatten(Tuple([j \in 1..Len(NOMINAL_COLS) |->
        LET c == NOMINAL_COLS[j]
        IN  Tuple([k \in 1..Len(Order(c)) |-> <<c, Order(c)[k]>>])]))

FirstSeen(c) == Distinct(Observed(pipe.X.data[c]))

SortedSeen(c) ==
    LET Seen(v) == v \in TrainSeen(c) IN SelectSeq(SortedLabels, Seen)

HoldsValue(c) == TrainSeen(c) # {}

\* C8 as stated: the numeric columns, then per nominal column one indicator
\* per category seen in fit in the order of first appearance in the training
\* table, then Overall Qual and Overall Cond, then the 17 ordinal-encoded
\* columns.
C8_BlocksInFirstSeenOrder ==
    Fitted =>
        pipe.names = Plain(NUMERIC_COLS) \o Blocks(FirstSeen)
                        \o <<<<"Overall Qual">>, <<"Overall Cond">>>>
                        \o Plain(OrdinalEncoded)

\* C8, amended: the numeric columns that hold a value in the training
\* table, in list order; then per nominal column one indicator per category
\* seen in fit, the indicators of a block in sorted order of the categories;
\* then those of Overall Qual and Overall Cond that hold a value in the
\* training table; then the 17 ordinal-encoded columns in ORDINAL_COLS order,
\* one integer column each.  The cells of a returned table are those of the
\* column so named.
C8_BlocksInSortedOrder ==
    /\ Fitted =>
          /\ pipe.names =
                Plain(SelectSeq(NUMERIC_COLS, HoldsValue))
                    \o Blocks(SortedSeen)
                    \o Plain(SelectSeq(<<"Overall Qual", "Overall Cond">>,
                                       HoldsValue))
                    \o Plain(OrdinalEncoded)
          /\ Len(OrdinalEncoded) = 17
    /\ TransformOk =>
          /\ Len(last.out.value.data) = Len(pipe.names)
          /\ \A n \in 1..Len(pipe.names) : \A i \in 1..NRows(last.X) :
                LET name == pipe.names[n]
                    cell == last.X.data[name[1]][i]
                    out == last.out.value.data[n][i]
                IN  ~isna(cell) =>
                      CASE Len(name) = 2 -> out = IF cell = {name[2]}
                                                  THEN {1} ELSE {0}
                        [] name[1] \in Range(OrdinalEncoded) ->
                              out = {ordinal_code(ORDINAL_CATEGORIES(name[1]),
                                                  Value(cell), -1)}
                        [] OTHER -> out = cell

\* A transform by a pipeline whose training table shows, in some nominal
\* column, the categories in another order than the sorted one.
C8_Witness ==
    /\ TransformOk
    /\ NRows(last.X) > 0
    /\ \E c \in Range(NOMINAL_COLS) :
          /\ FirstSeen(c) = <<"B", "A">>
          /\ IndexOf(pipe.names, <<c, "A">>) < IndexOf(pipe.names, <<c, "B">>)

====
